---- MODULE Spec2Model ----
(***************************************************************************)
(* XinicsBori/servers, src/postgres: the SSH tunnel (tunnel.ts, in its two *)
(* versions: one forwarded stream, and a local listening proxy) and the    *)
(* protocol server's request handlers (index.ts).                          *)
(*                                                                         *)
(* Spec         one call of connectWithTunnel, from the call to the last   *)
(*              callback it registered; FairSpec adds that every callback  *)
(*              registered is called.                                      *)
(* QuerySpec    the requests served on the two shared client handles.      *)
(* ProxySpec    the local connections the proxy version bridges;           *)
(*              ProxyFairSpec adds that an ended side closes.              *)
(* StartupSpec  the process from its arguments to the first requests.      *)
(***************************************************************************)
EXTENDS Integers, Sequences, FiniteSets, TLC

(***************************************************************************)
(* Bounds of the model.                                                    *)
(***************************************************************************)
\* 'error' events the SSH client may emit after 'ready'
MaxSshErrors == 1
\* 'error' events the local server may emit after it started listening
MaxServerErrors == 1
\* `query` tool calls in one run
MaxCalls == 2
\* local connections the proxy accepts
MaxConns == 2
\* chunks of data one bridged connection carries
MaxTransfers == 1

(***************************************************************************)
(* JavaScript values.                                                      *)
(***************************************************************************)
Undefined == "undefined"

\* if (x), !x on a string that may be missing
Truthy(v) == v \notin {Undefined, ""}

\* the messages of the errors the environment raises
ErrMsgs == {"ECONNREFUSED", "EPERM"}

(***************************************************************************)
(* tunnel.ts: the inputs of connectWithTunnel.                             *)
(***************************************************************************)
Variants == {"forwardOut", "proxy"}

\* files fs.readFileSync can read
ReadableFiles == {"id_rsa"}

KeyPaths == {Undefined, "", "id_rsa", "missing.pem"}

Passwords == {Undefined, "", "secret"}

Passphrases == {Undefined, "phrase"}

\* args.sshPort: 0 stands for a port that is not given
SshPorts == {0, 2222}

\* args.dbUser, which may be missing
DbUsers == {Undefined, "dbuser"}

DbConnectArgs ==
    [dbHostRemote : {"db.internal"}, dbPortRemote : {5432},
     dbUser : DbUsers, dbPassword : {"dbpass"},
     sshHost : {"bastion"}, sshPort : SshPorts, sshUser : {"tunnel"},
     sshPassword : Passwords, sshPrivateKeyPath : KeyPaths, sshPassphrase : Passphrases]

\* stream.localPort of a forwarded stream: 0 stands for a port that is not set
StreamLocalPorts == {0, 40022}

\* Math.floor(Math.random() * 1000)
RandomOffsets == {0, 999}

databaseNames == <<"haksa_sis", "canvas_production">>

srcAddr == "127.0.0.1"

NoClient == [database |-> Undefined]

VARIABLES
    variant,        \* which version of tunnel.ts runs
    args,           \* the DbConnectArgs of the call
    pc,             \* "idle" when there is no call, "init" before the executor
                    \* runs, "called" after it ran
    sshConfig,      \* the SshConnectConfig; before the call, no credentials
    sshState,       \* "new", "connecting", "ready", "failed"
    sshErrors,      \* 'error' events delivered after 'ready'
    srcPort,        \* tunnelOptions.srcPort
    forward,        \* the forwardOut request of the forwardOut version
    listener,       \* the net.Server of the proxy version
    serverErrors,   \* 'error' events of the server after it started listening
    pools,          \* the pg.Pool objects created, in order
    acq,            \* pool.connect() of each pool: "none", "pending", "ok", "failed"
    values,         \* the values array of Promise.all
    allState,       \* Promise.all: "none", "pending", "fulfilled", "rejected"
    held,           \* the pools whose client is acquired and not released, in
                    \* the order of acquisition
    promise,        \* the promise connectWithTunnel returns
    log             \* the calls made, in order

tunnelVars ==
    <<variant, args, pc, sshConfig, sshState, sshErrors, srcPort, forward, listener,
      serverErrors, pools, acq, values, allState, held, promise, log>>

(***************************************************************************)
(* index.ts: the two client handles and the requests served on them.       *)
(***************************************************************************)
VARIABLES
    handles,        \* haksaSisClient and canvasProductionClient: the queue of
                    \* queries of the connection, the client.query() calls made,
                    \* the transaction state of its session, the statements
                    \* executed, the release() calls
    calls           \* the tool calls started, in order: where each handler
                    \* stands and what it delivered

queryVars == <<handles, calls>>

(***************************************************************************)
(* tunnel.ts 267-293: the local connections the proxy accepted.            *)
(***************************************************************************)
VARIABLES
    conns,          \* per accepted connection: what the socket reports of its
                    \* peer, the socket, the forwarded stream of its forwardOut
                    \* request, the data moved
    forwards        \* the forwardOut requests of the connection handler, in order

proxyVars == <<conns, forwards>>

(***************************************************************************)
(* index.ts 27-85, 229-234: the start of the process.                      *)
(***************************************************************************)
VARIABLES
    argv,           \* process.argv.slice(2)
    proc,           \* "starting", "tunnel", "direct", "serving", "exited"
    exitCode,       \* the status of process.exit, -1 while the process runs
    assigned        \* what haksaSisClient and canvasProductionClient hold:
                    \* "null", or the database of the client assigned

startVars == <<argv, proc, exitCode, assigned>>

vars == <<tunnelVars, queryVars, proxyVars, startVars>>

(***************************************************************************)
(* The promise connectWithTunnel returns, and the calls a handler makes.   *)
(***************************************************************************)
NoError == [prefix |-> Undefined, message |-> Undefined]

Err(prefix, message) == [prefix |-> prefix, message |-> message]

PendingPromise == [state |-> "pending", clients |-> <<>>, error |-> NoError, at |-> 0]

End == [call |-> "end", error |-> NoError, clients |-> <<>>]

RejectWith(e) == [call |-> "reject", error |-> e, clients |-> <<>>]

ResolveWith(cs) == [call |-> "resolve", error |-> NoError, clients |-> cs]

\* a slip: the last call wins
Settle_LastWins(p, c, n) ==
    IF c.call = "resolve"
    THEN [state |-> "resolved", clients |-> c.clients, error |-> NoError, at |-> n]
    ELSE IF c.call = "reject"
    THEN [state |-> "rejected", clients |-> <<>>, error |-> c.error, at |-> n]
    ELSE p

\* resolve and reject settle a pending promise and do nothing to a settled one;
\* n is the place of the call in the log
Settle(p, c, n) ==
    IF p.state # "pending" THEN p
    ELSE IF c.call = "resolve"
         THEN [state |-> "resolved", clients |-> c.clients, error |-> NoError, at |-> n]
    ELSE IF c.call = "reject"
         THEN [state |-> "rejected", clients |-> <<>>, error |-> c.error, at |-> n]
    ELSE p

RECURSIVE SettleAll(_, _, _)
SettleAll(p, cs, n) ==
    IF cs = <<>> THEN p ELSE SettleAll(Settle(p, Head(cs), n + 1), Tail(cs), n + 1)

\* a handler makes the calls cs, in order
Do(cs) ==
    /\ log' = log \o [i \in 1..Len(cs) |-> cs[i].call]
    /\ promise' = SettleAll(promise, cs, Len(log))

(***************************************************************************)
(* tunnel.ts 24-43, 234-253: the credentials of the SSH configuration.     *)
(***************************************************************************)
NoCredentials == [privateKey |-> Undefined, passphrase |-> Undefined, password |-> Undefined]

\* fs.readFileSync(path): the contents, or a throw
readFileSync(path) ==
    IF path \in ReadableFiles
    THEN [ok |-> TRUE, data |-> path, message |-> Undefined]
    ELSE [ok |-> FALSE, data |-> Undefined, message |-> "ENOENT"]

\* a slip: the password is set whenever the arguments have one
Credentials_PasswordAlways(a) ==
    IF Truthy(a.sshPrivateKeyPath)
    THEN LET f == readFileSync(a.sshPrivateKeyPath) IN
         IF f.ok
         THEN [error |-> NoError,
               config |-> [privateKey |-> f.data,
                           passphrase |-> IF Truthy(a.sshPassphrase)
                                          THEN a.sshPassphrase ELSE Undefined,
                           password |-> a.sshPassword]]
         ELSE [error |-> Err("Failed to read SSH private key: ", f.message),
               config |-> NoCredentials]
    ELSE IF Truthy(a.sshPassword)
    THEN [error |-> NoError,
          config |-> [privateKey |-> Undefined, passphrase |-> Undefined,
                      password |-> a.sshPassword]]
    ELSE [error |-> Err("SSH password or private key must be provided.", Undefined),
          config |-> NoCredentials]

\* a slip: without credentials the configuration is used as it is
Credentials_MissingProceeds(a) ==
    IF Truthy(a.sshPrivateKeyPath)
    THEN LET f == readFileSync(a.sshPrivateKeyPath) IN
         IF f.ok
         THEN [error |-> NoError,
               config |-> [privateKey |-> f.data,
                           passphrase |-> IF Truthy(a.sshPassphrase)
                                          THEN a.sshPassphrase ELSE Undefined,
                           password |-> Undefined]]
         ELSE [error |-> Err("Failed to read SSH private key: ", f.message),
               config |-> NoCredentials]
    ELSE IF Truthy(a.sshPassword)
    THEN [error |-> NoError,
          config |-> [privateKey |-> Undefined, passphrase |-> Undefined,
                      password |-> a.sshPassword]]
    ELSE [error |-> NoError, config |-> NoCredentials]

\* a slip: an unreadable key falls back to the password
Credentials_PasswordFallback(a) ==
    IF Truthy(a.sshPrivateKeyPath) /\ readFileSync(a.sshPrivateKeyPath).ok
    THEN [error |-> NoError,
          config |-> [privateKey |-> readFileSync(a.sshPrivateKeyPath).data,
                      passphrase |-> IF Truthy(a.sshPassphrase)
                                     THEN a.sshPassphrase ELSE Undefined,
                      password |-> Undefined]]
    ELSE IF Truthy(a.sshPassword)
    THEN [error |-> NoError,
          config |-> [privateKey |-> Undefined, passphrase |-> Undefined,
                      password |-> a.sshPassword]]
    ELSE IF Truthy(a.sshPrivateKeyPath)
    THEN [error |-> Err("Failed to read SSH private key: ", "ENOENT"),
          config |-> NoCredentials]
    ELSE [error |-> Err("SSH password or private key must be provided.", Undefined),
          config |-> NoCredentials]

Credentials(a) ==
    IF Truthy(a.sshPrivateKeyPath)
    THEN LET f == readFileSync(a.sshPrivateKeyPath) IN
         IF f.ok
         THEN [error |-> NoError,
               config |-> [privateKey |-> f.data,
                           passphrase |-> IF Truthy(a.sshPassphrase)
                                          THEN a.sshPassphrase ELSE Undefined,
                           password |-> Undefined]]
         ELSE [error |-> Err("Failed to read SSH private key: ", f.message),
               config |-> NoCredentials]
    ELSE IF Truthy(a.sshPassword)
    THEN [error |-> NoError,
          config |-> [privateKey |-> Undefined, passphrase |-> Undefined,
                      password |-> a.sshPassword]]
    ELSE [error |-> Err("SSH password or private key must be provided.", Undefined),
          config |-> NoCredentials]

\* sshConfig: tunnel.ts 24-43, 234-253; host, port and username, then the
\* credentials
SshConfig(a) ==
    [host |-> a.sshHost,
     port |-> IF a.sshPort # 0 THEN a.sshPort ELSE 22,
     username |-> a.sshUser,
     privateKey |-> Credentials(a).config.privateKey,
     passphrase |-> Credentials(a).config.passphrase,
     password |-> Credentials(a).config.password]

\* tunnelOptions.srcPort: 0 in the forwardOut version, 50000 + a random offset in
\* the proxy version
TunnelSrcPort(v, offset) == IF v = "forwardOut" THEN 0 ELSE 50000 + offset

(***************************************************************************)
(* What each callback of connectWithTunnel calls, in order.                *)
(***************************************************************************)
\* a slip: the rejection drops the underlying message
OnSshError_NoMessage(message) == <<RejectWith(Err("SSH connection error: ", Undefined))>>

\* sshClient.on('error'): tunnel.ts 106-108, 333-335
OnSshError(message) == <<RejectWith(Err("SSH connection error: ", message))>>

\* a slip: the session is left open
OnForwardError_NoEnd(message) == <<RejectWith(Err("SSH forwardOut error: ", message))>>

\* forwardOut's callback with err: tunnel.ts 61-64
OnForwardError(message) == <<End, RejectWith(Err("SSH forwardOut error: ", message))>>

\* a slip: the session is left open
OnNoLocalPort_NoEnd == <<RejectWith(Err("Failed to get local port for tunnel.", Undefined))>>

\* no local port: tunnel.ts 68-71
OnNoLocalPort == <<End, RejectWith(Err("Failed to get local port for tunnel.", Undefined))>>

\* a slip: the session is left open
OnServerError_NoEnd(message) == <<RejectWith(Err("Local server error: ", message))>>

\* server.on('error'): tunnel.ts 329-332
OnServerError(message) == <<End, RejectWith(Err("Local server error: ", message))>>

\* the catch around await Promise.all: tunnel.ts 99-103, 324-326
OnAcquireError(v, message) ==
    IF v = "forwardOut"
    THEN <<End, RejectWith(Err("", message))>>
    ELSE <<RejectWith(Err("Failed to connect to databases: ", message))>>

\* resolve(clients): tunnel.ts 98, 323
OnAcquired(clients) == <<ResolveWith(clients)>>

(***************************************************************************)
(* tunnel.ts 74-92, 299-317: the pools and Promise.all.                    *)
(***************************************************************************)
\* databaseUrls, then one pg.Pool per url
CreatePools(port) ==
    [i \in DOMAIN databaseNames |->
        [user |-> IF Truthy(args.dbUser) THEN args.dbUser ELSE "",
         password |-> IF Truthy(args.dbPassword) THEN args.dbPassword ELSE "",
         host |-> srcAddr, port |-> port, database |-> databaseNames[i],
         ended |-> FALSE]]

\* the client pool.connect() resolves with
ClientOf(pool) == [database |-> pool.database]

\* a slip: the values are kept in the order the promises resolve
PromiseAllStore_Push(vs, i, c) ==
    LET free == {j \in DOMAIN vs : vs[j] = NoClient}
        first == CHOOSE j \in free : \A k \in free : j <= k
    IN  [vs EXCEPT ![first] = c]

\* Promise.all keeps the value of the i-th promise at index i
PromiseAllStore(vs, i, c) == [vs EXCEPT ![i] = c]

StartAcquisition(port) ==
    /\ pools' = CreatePools(port)
    /\ acq' = [i \in DOMAIN databaseNames |-> "pending"]
    /\ values' = [i \in DOMAIN databaseNames |-> NoClient]
    /\ allState' = "pending"

(***************************************************************************)
(* The actions of one call of connectWithTunnel.                           *)
(***************************************************************************)
\* nothing of the tunnel exists yet
TunnelFresh ==
    /\ sshConfig = NoCredentials
    /\ sshState = "new"
    /\ sshErrors = 0
    /\ srcPort = 0
    /\ forward = "none"
    /\ listener = "none"
    /\ serverErrors = 0
    /\ pools = <<>>
    /\ acq = <<>>
    /\ values = <<>>
    /\ allState = "none"
    /\ held = <<>>
    /\ promise = PendingPromise
    /\ log = <<>>

TunnelInit ==
    /\ variant \in Variants
    /\ args \in DbConnectArgs
    /\ pc = "init"
    /\ TunnelFresh

\* the executor of the promise: tunnel.ts 21-108, 231-335
connectWithTunnel ==
    /\ pc = "init"
    /\ pc' = "called"
    /\ LET c == Credentials(args) IN
       /\ sshConfig' = SshConfig(args)
       /\ IF c.error # NoError
          THEN /\ Do(<<RejectWith(c.error)>>)
               /\ UNCHANGED <<sshState, srcPort>>
          ELSE /\ \E offset \in RandomOffsets : srcPort' = TunnelSrcPort(variant, offset)
               /\ sshState' = "connecting"
               /\ log' = Append(log, "connect")
               /\ promise' = promise
    /\ UNCHANGED <<queryVars, proxyVars, startVars>>
    /\ UNCHANGED <<variant, args, sshErrors, forward, listener, serverErrors, pools,
                   acq, values, allState, held>>

\* sshClient.on('ready'): tunnel.ts 53-60, 263-296
SshReady ==
    /\ sshState = "connecting"
    /\ sshState' = "ready"
    /\ IF variant = "forwardOut"
       THEN /\ forward' = "pending"
            /\ log' = Append(log, "forwardOut")
            /\ UNCHANGED listener
       ELSE /\ listener' = "binding"
            /\ log' = Append(log, "listen")
            /\ UNCHANGED forward
    /\ UNCHANGED <<queryVars, proxyVars, startVars>>
    /\ UNCHANGED <<variant, args, pc, sshConfig, sshErrors, srcPort, serverErrors, pools,
                   acq, values, allState, held, promise>>

\* sshClient.on('error') before 'ready': the transport or the authentication failed
SshConnectError(message) ==
    /\ sshState = "connecting"
    /\ sshState' = "failed"
    /\ Do(OnSshError(message))
    /\ UNCHANGED <<queryVars, proxyVars, startVars>>
    /\ UNCHANGED <<variant, args, pc, sshConfig, sshErrors, srcPort, forward, listener,
                   serverErrors, pools, acq, values, allState, held>>

\* sshClient.on('error') after 'ready': the handler stays registered for the life of
\* the client, tunnel.ts 106-108, 333-335
SshLateError(message) ==
    /\ sshState = "ready"
    /\ sshErrors < MaxSshErrors
    /\ sshErrors' = sshErrors + 1
    /\ Do(OnSshError(message))
    /\ UNCHANGED <<queryVars, proxyVars, startVars>>
    /\ UNCHANGED <<variant, args, pc, sshConfig, sshState, srcPort, forward, listener,
                   serverErrors, pools, acq, values, allState, held>>

\* forwardOut's callback with err: tunnel.ts 60-64
ForwardError(message) ==
    /\ forward = "pending"
    /\ forward' = "failed"
    /\ Do(OnForwardError(message))
    /\ UNCHANGED <<queryVars, proxyVars, startVars>>
    /\ UNCHANGED <<variant, args, pc, sshConfig, sshState, sshErrors, srcPort, listener,
                   serverErrors, pools, acq, values, allState, held>>

\* forwardOut's callback with a stream: tunnel.ts 60-92
ForwardStream(localPort) ==
    /\ forward = "pending"
    /\ forward' = "ok"
    /\ LET actualLocalPort == IF localPort # 0 THEN localPort ELSE srcPort IN
       IF actualLocalPort = 0 /\ srcPort = 0
       THEN /\ Do(OnNoLocalPort)
            /\ UNCHANGED <<pools, acq, values, allState>>
       ELSE /\ StartAcquisition(actualLocalPort)
            /\ log' = log \o <<"pool.connect", "pool.connect">>
            /\ promise' = promise
    /\ UNCHANGED <<queryVars, proxyVars, startVars>>
    /\ UNCHANGED <<variant, args, pc, sshConfig, sshState, sshErrors, srcPort, listener,
                   serverErrors, held>>

\* the callback of server.listen: tunnel.ts 296-317
Listening ==
    /\ listener = "binding"
    /\ listener' = "listening"
    /\ StartAcquisition(srcPort)
    /\ log' = log \o <<"pool.connect", "pool.connect">>
    /\ UNCHANGED <<queryVars, proxyVars, startVars>>
    /\ UNCHANGED <<variant, args, pc, sshConfig, sshState, sshErrors, srcPort, forward,
                   serverErrors, held, promise>>

\* server.on('error') when the bind fails: tunnel.ts 329-332
ListenError(message) ==
    /\ listener = "binding"
    /\ listener' = "failed"
    /\ Do(OnServerError(message))
    /\ UNCHANGED <<queryVars, proxyVars, startVars>>
    /\ UNCHANGED <<variant, args, pc, sshConfig, sshState, sshErrors, srcPort, forward,
                   serverErrors, pools, acq, values, allState, held>>

\* server.on('error') of the listening server: tunnel.ts 329-332
ServerError(message) ==
    /\ listener = "listening"
    /\ serverErrors < MaxServerErrors
    /\ serverErrors' = serverErrors + 1
    /\ Do(OnServerError(message))
    /\ UNCHANGED <<queryVars, proxyVars, startVars>>
    /\ UNCHANGED <<variant, args, pc, sshConfig, sshState, sshErrors, srcPort, forward,
                   listener, pools, acq, values, allState, held>>

\* pool.connect() of pools[i] resolves: tunnel.ts 92-98, 317-323
Acquired(i) ==
    /\ i \in DOMAIN acq
    /\ acq[i] = "pending"
    /\ acq' = [acq EXCEPT ![i] = "ok"]
    /\ held' = Append(held, i)
    /\ values' = PromiseAllStore(values, i, ClientOf(pools[i]))
    /\ IF allState = "pending" /\ \A j \in DOMAIN acq' : acq'[j] = "ok"
       THEN /\ allState' = "fulfilled"
            /\ Do(OnAcquired(values'))
       ELSE UNCHANGED <<allState, promise, log>>
    /\ UNCHANGED <<queryVars, proxyVars, startVars>>
    /\ UNCHANGED <<variant, args, pc, sshConfig, sshState, sshErrors, srcPort, forward,
                   listener, serverErrors, pools>>

\* pool.connect() of pools[i] rejects: tunnel.ts 92, 99-103, 317, 324-326
AcquireFailed(i, message) ==
    /\ i \in DOMAIN acq
    /\ acq[i] = "pending"
    /\ acq' = [acq EXCEPT ![i] = "failed"]
    /\ IF allState = "pending"
       THEN /\ allState' = "rejected"
            /\ Do(OnAcquireError(variant, message))
       ELSE UNCHANGED <<allState, promise, log>>
    /\ UNCHANGED <<queryVars, proxyVars, startVars>>
    /\ UNCHANGED <<variant, args, pc, sshConfig, sshState, sshErrors, srcPort, forward,
                   listener, serverErrors, pools, values, held>>

TunnelNext ==
    \/ connectWithTunnel
    \/ SshReady
    \/ \E m \in ErrMsgs : SshConnectError(m)
    \/ \E m \in ErrMsgs : SshLateError(m)
    \/ \E m \in ErrMsgs : ForwardError(m)
    \/ \E p \in StreamLocalPorts : ForwardStream(p)
    \/ Listening
    \/ \E m \in ErrMsgs : ListenError(m)
    \/ \E m \in ErrMsgs : ServerError(m)
    \/ \E i \in DOMAIN databaseNames : Acquired(i)
    \/ \E i \in DOMAIN databaseNames, m \in ErrMsgs : AcquireFailed(i, m)

(***************************************************************************)
(* tunnel.ts 267-293: the connection handler of the local server. Each     *)
(* accepted socket gets its own forwardOut request; the callback of the    *)
(* request holds the socket and the stream of that request.                *)
(* A socket is "open", "ended" (socket.end() was called: half closed) or   *)
(* "closed"; a stream is "requested", "failed", "open", "ended"            *)
(* (sshStream.end() was called) or "closed".                               *)
(***************************************************************************)
ConnIds == 1..MaxConns

\* socket.remoteAddress and socket.remotePort of an accepted socket; a socket whose
\* peer is already gone reports neither (port 0 stands for a port not reported)
Peers == {[address |-> "127.0.0.1", port |-> 51000], [address |-> Undefined, port |-> 0]}

\* the arguments of sshClient.forwardOut: tunnel.ts 269-273
ForwardOutArgs(peer, a) ==
    [srcAddr |-> IF Truthy(peer.address) THEN peer.address ELSE "127.0.0.1",
     srcPort |-> IF peer.port # 0 THEN peer.port ELSE 0,
     dstAddr |-> a.dbHostRemote, dstPort |-> a.dbPortRemote]

\* socket.end()
socketEnd(c) == [c EXCEPT !.socket = IF @ = "open" THEN "ended" ELSE @]

\* sshStream.end()
streamEnd(c) == [c EXCEPT !.stream = IF @ = "open" THEN "ended" ELSE @]

\* whether the callback of forwardOut delivered a stream for the connection
Bridged(c) == c.stream \in {"open", "ended", "closed"}

\* a slip: the failure is ignored
OnForwardOutError_Nothing(cs, i) == cs

\* forwardOut's callback with err: tunnel.ts 275-279
OnForwardOutError(cs, i) == [cs EXCEPT ![i] = socketEnd(@)]

\* forwardOut's callback with a stream: tunnel.ts 281-290. socket.pipe(sshStream)
\* ends the stream when the socket ends, at once when it has ended already
OnForwardOutStream(cs, i) ==
    [cs EXCEPT ![i].stream = IF cs[i].socket = "closed" THEN "ended" ELSE "open"]

\* a slip: one stream variable shared by all connections
OnSocketClose_EndsAll(cs, i) == [j \in DOMAIN cs |-> streamEnd(cs[j])]

\* socket.on('close'): tunnel.ts 283-285
OnSocketClose(cs, i) == [cs EXCEPT ![i] = streamEnd(@)]

\* a slip: the socket is left as it is
OnStreamClose_Nothing(cs, i) == cs

\* sshStream.on('close'): tunnel.ts 287-289
OnStreamClose(cs, i) == [cs EXCEPT ![i] = socketEnd(@)]

ProxyIdle ==
    /\ conns = <<>>
    /\ forwards = <<>>

\* the server accepts a connection and the handler requests a forward for it:
\* tunnel.ts 267-274
Accept(peer) ==
    /\ listener = "listening"
    /\ Len(conns) < MaxConns
    /\ conns' = Append(conns, [peer |-> peer, socket |-> "open",
                                stream |-> "requested", moved |-> 0])
    /\ forwards' = Append(forwards, [conn |-> Len(conns) + 1,
                                     request |-> ForwardOutArgs(peer, args)])
    /\ UNCHANGED <<tunnelVars, queryVars, startVars>>

\* the forwardOut request of connection i fails: tunnel.ts 274-279
ForwardOutError(i) ==
    /\ i \in DOMAIN conns
    /\ conns[i].stream = "requested"
    /\ conns' = OnForwardOutError([conns EXCEPT ![i].stream = "failed"], i)
    /\ UNCHANGED <<forwards, tunnelVars, queryVars, startVars>>

\* the forwardOut request of connection i delivers its stream: tunnel.ts 274-290
ForwardOutStream(i) ==
    /\ i \in DOMAIN conns
    /\ conns[i].stream = "requested"
    /\ conns' = OnForwardOutStream(conns, i)
    /\ UNCHANGED <<forwards, tunnelVars, queryVars, startVars>>

\* the socket and the stream of connection i carry data: tunnel.ts 281
Transfer(i) ==
    /\ i \in DOMAIN conns
    /\ conns[i].socket = "open"
    /\ conns[i].stream = "open"
    /\ conns[i].moved < MaxTransfers
    /\ conns' = [conns EXCEPT ![i].moved = @ + 1]
    /\ UNCHANGED <<forwards, tunnelVars, queryVars, startVars>>

\* the socket of connection i emits 'close': the peer closed it, or answered the
\* end of our side; tunnel.ts 283-285 once the handler is registered
SocketClose(i) ==
    /\ i \in DOMAIN conns
    /\ conns[i].socket \in {"open", "ended"}
    /\ LET closed == [conns EXCEPT ![i].socket = "closed"] IN
       conns' = IF Bridged(conns[i]) THEN OnSocketClose(closed, i) ELSE closed
    /\ UNCHANGED <<forwards, tunnelVars, queryVars, startVars>>

\* the stream of connection i emits 'close': the remote end closed the channel, or
\* answered the end of our side; tunnel.ts 287-289
StreamClose(i) ==
    /\ i \in DOMAIN conns
    /\ conns[i].stream \in {"open", "ended"}
    /\ conns' = OnStreamClose([conns EXCEPT ![i].stream = "closed"], i)
    /\ UNCHANGED <<forwards, tunnelVars, queryVars, startVars>>

\* the peer of the socket answers the end of our side
SocketEndCompletes(i) == SocketClose(i) /\ conns[i].socket = "ended"

\* the remote end of the channel answers the end of our side
StreamEndCompletes(i) == StreamClose(i) /\ conns[i].stream = "ended"

ProxyNext ==
    \/ \E peer \in Peers : Accept(peer)
    \/ \E i \in ConnIds : ForwardOutError(i)
    \/ \E i \in ConnIds : ForwardOutStream(i)
    \/ \E i \in ConnIds : Transfer(i)
    \/ \E i \in ConnIds : SocketClose(i)
    \/ \E i \in ConnIds : StreamClose(i)

(***************************************************************************)
(* index.ts 60-99: the handles and getPoolClient.                          *)
(***************************************************************************)
HandleNames == {"haksaSisClient", "canvasProductionClient"}

DEFAULT_DATABASE == "canvas_production"

\* the database argument of a request: missing, empty, one of the two names, or
\* another name
DatabaseArgs == {Undefined, "", "haksa_sis", "canvas_production", "postgres"}

ToolNames == {"query", "explain"}

\* a slip: the default is the other client
getPoolClient_HaksaDefault(database) ==
    IF database = "canvas_production" THEN "canvasProductionClient" ELSE "haksaSisClient"

getPoolClient(database) ==
    IF database = "haksa_sis" THEN "haksaSisClient" ELSE "canvasProductionClient"

BEGIN == "BEGIN TRANSACTION READ ONLY"

ROLLBACK == "ROLLBACK"

\* the statement of the caller: any statement that is not transaction control
SQL == "sql"

\* the statement of ListResources: index.ts 108, 118
LIST == "SELECT table_name"

\* the statement of ReadResource: index.ts 157
COLUMNS == "SELECT column_name"

SCHEMA_PATH == "schema"

\* resourceUrl.pathname.split("/") of the URIs a resource read is tried with
Pathnames ==
    {<<"", "haksa_sis", "users", "schema">>,
     <<"", "canvas_production", "users", "schema">>,
     <<"", "users", "schema">>,
     <<"", "a", "haksa_sis", "users", "schema">>,
     <<"", "haksa_sis", "users", "rows">>,
     <<"", "haksa_sis", "users", "schema", "">>}

\* the k-th pathComponents.pop(): undefined once the array is empty
Pop(path, k) == IF Len(path) >= k THEN path[Len(path) - k + 1] ELSE Undefined

\* a handle as pool.connect() delivers it
FreshHandle ==
    [queue |-> <<>>, issued |-> <<>>, alive |-> TRUE, txn |-> "idle",
     executed |-> <<>>, releases |-> 0]

(***************************************************************************)
(* The database session behind a handle. A query ends in one of three      *)
(* ways: "ok", "error" (the server rejects the statement of the caller),   *)
(* "lost" (the connection breaks; every later query fails too).            *)
(***************************************************************************)
Outcomes == {"ok", "error", "lost"}

\* whether the statement reaches the server
Reaches(h, outcome) == h.alive /\ outcome # "lost"

\* whether the query resolves; in an aborted transaction only ROLLBACK is accepted
Accepts(h, text, outcome) ==
    /\ Reaches(h, outcome)
    /\ outcome = "ok"
    /\ ~(h.txn = "aborted" /\ text # ROLLBACK)

\* the transaction state after a statement that reached the server
TxnAfter(txn, text, accepted) ==
    IF text = BEGIN THEN (IF accepted /\ txn = "idle" THEN "readonly" ELSE txn)
    ELSE IF text = ROLLBACK THEN (IF accepted THEN "idle" ELSE txn)
    ELSE IF ~accepted /\ txn = "readonly" THEN "aborted"
    ELSE txn

\* the connection takes the query at the head of its queue and runs it
Run(h, outcome) ==
    LET q == Head(h.queue)
        accepted == Accepts(h, q.text, outcome)
    IN  IF Reaches(h, outcome)
        THEN [h EXCEPT !.queue = Tail(@),
                       !.txn = TxnAfter(h.txn, q.text, accepted),
                       !.executed = Append(@, [call |-> q.call, text |-> q.text,
                                               txn |-> h.txn, ok |-> accepted])]
        ELSE [h EXCEPT !.queue = Tail(@), !.alive = FALSE]

\* client.query(text): the query joins the queue of the connection
Enqueue(h, id, text) ==
    [h EXCEPT !.queue = Append(@, [call |-> id, text |-> text]),
              !.issued = Append(@, [call |-> id, text |-> text,
                                    released |-> h.releases > 0])]

\* client.release(): index.ts 111, 121, 170, 223
Release(h) == [h EXCEPT !.releases = @ + 1]

\* a slip: no ROLLBACK is sent
Finally_NoRollback(h, id) == [h EXCEPT !.releases = @ + 1]

\* the finally block of the query tool: index.ts 219-224
\* ROLLBACK is queued and not awaited, then the client is released
Finally(h, id) ==
    [Enqueue(h, id, ROLLBACK) EXCEPT !.releases = @ + 1]

\* client.release() on a client that was released before throws (pg-pool: "Release
\* called on client which has already been released to the pool"), and the throw
\* in the finally block replaces the result of the handler: index.ts 223
ReleaseThrows(h) == h.releases >= 1

\* what the handler delivers: index.ts 209-224
Delivered(h, accepted) ==
    IF ReleaseThrows(h) THEN "release error"
    ELSE IF accepted THEN "rows" ELSE "error"

(***************************************************************************)
(* The actions of the request handlers.                                    *)
(***************************************************************************)
QueryInit ==
    /\ handles = [n \in HandleNames |-> FreshHandle]
    /\ calls = <<>>

\* CallToolRequestSchema handler up to its first await: index.ts 201-208, 226;
\* the handler is registered and the transport connected once the start of the
\* process is through (index.ts 63-85, 229-234)
CallTool(name, database) ==
    /\ proc = "serving"
    /\ Len(calls) < MaxCalls
    /\ LET id == Len(calls) + 1
           db == IF Truthy(database) THEN database ELSE DEFAULT_DATABASE
           client == getPoolClient(db)
       IN  IF name = "query"
           THEN /\ handles' = [handles EXCEPT ![client] = Enqueue(@, id, BEGIN)]
                /\ calls' = Append(calls, [pc |-> "begin", name |-> name,
                                           asked |-> database, uri |-> <<>>,
                                           database |-> db, client |-> client,
                                           outcome |-> "none"])
           ELSE /\ calls' = Append(calls, [pc |-> "done", name |-> name,
                                           asked |-> database, uri |-> <<>>,
                                           database |-> db, client |-> Undefined,
                                           outcome |-> "Unknown tool"])
                /\ UNCHANGED handles
    /\ UNCHANGED <<tunnelVars, proxyVars, startVars>>

\* ListResourcesRequestSchema handler up to its first await: index.ts 102-108
ListResources ==
    /\ proc = "serving"
    /\ Len(calls) < MaxCalls
    /\ LET id == Len(calls) + 1
           client == getPoolClient("haksa_sis")
       IN  /\ handles' = [handles EXCEPT ![client] = Enqueue(@, id, LIST)]
           /\ calls' = Append(calls, [pc |-> "list1", name |-> "resources/list",
                                      asked |-> "haksa_sis", uri |-> <<>>,
                                      database |-> "haksa_sis", client |-> client,
                                      outcome |-> "none"])
    /\ UNCHANGED <<tunnelVars, proxyVars, startVars>>

\* ReadResourceRequestSchema handler up to its first await: index.ts 142-157
ReadResource(path) ==
    /\ proc = "serving"
    /\ Len(calls) < MaxCalls
    /\ LET id == Len(calls) + 1
           schema == Pop(path, 1)
           third == Pop(path, 3)
           database == IF Truthy(third) THEN third ELSE DEFAULT_DATABASE
           client == getPoolClient(database)
       IN  IF schema # SCHEMA_PATH
           THEN /\ calls' = Append(calls, [pc |-> "done", name |-> "resources/read",
                                           asked |-> third, uri |-> path,
                                           database |-> database, client |-> Undefined,
                                           outcome |-> "Invalid resource URI"])
                /\ UNCHANGED handles
           ELSE /\ handles' = [handles EXCEPT ![client] = Enqueue(@, id, COLUMNS)]
                /\ calls' = Append(calls, [pc |-> "read", name |-> "resources/read",
                                           asked |-> third, uri |-> path,
                                           database |-> database, client |-> client,
                                           outcome |-> "none"])
    /\ UNCHANGED <<tunnelVars, proxyVars, startVars>>

\* The connection runs the query at the head of its queue and delivers the result;
\* the handler that awaits it goes on to its next await or to its end:
\* index.ts 107-123, 156-171, 208-224
QueryCompletes(client, outcome) ==
    /\ handles[client].queue # <<>>
    /\ LET h == handles[client]
           q == Head(h.queue)
           accepted == Accepts(h, q.text, outcome)
           ran == Run(h, outcome)
       IN  /\ outcome = "error" => q.text = SQL
           /\ IF q.text = BEGIN /\ accepted
              THEN /\ handles' = [handles EXCEPT ![client] = Enqueue(ran, q.call, SQL)]
                   /\ calls' = [calls EXCEPT ![q.call].pc = "sql"]
              ELSE IF q.text = ROLLBACK
              THEN /\ handles' = [handles EXCEPT ![client] = ran]
                   /\ UNCHANGED calls
              ELSE IF q.text = LIST /\ calls[q.call].pc = "list1" /\ accepted
                      /\ ~ReleaseThrows(h)
              THEN LET next == getPoolClient("canvas_production") IN
                   /\ handles' = [handles EXCEPT ![client] = Release(ran),
                                                 ![next] = Enqueue(@, q.call, LIST)]
                   /\ calls' = [calls EXCEPT ![q.call].pc = "list2",
                                             ![q.call].client = next,
                                             ![q.call].database = "canvas_production"]
              ELSE IF q.text \in {LIST, COLUMNS}
              THEN /\ handles' = [handles EXCEPT ![client] = Release(ran)]
                   /\ calls' = [calls EXCEPT ![q.call].pc = "done",
                                             ![q.call].outcome = Delivered(h, accepted)]
              ELSE /\ handles' = [handles EXCEPT ![client] = Finally(ran, q.call)]
                   /\ calls' = [calls EXCEPT ![q.call].pc = "done",
                                             ![q.call].outcome = Delivered(h, accepted)]
    /\ UNCHANGED <<tunnelVars, proxyVars, startVars>>

QueryNext ==
    \/ ListResources
    \/ \E path \in Pathnames : ReadResource(path)
    \/ \E name \in ToolNames, database \in DatabaseArgs : CallTool(name, database)
    \/ \E client \in HandleNames, outcome \in Outcomes : QueryCompletes(client, outcome)

(***************************************************************************)
(* index.ts 27-85: the arguments of the process and the start.             *)
(***************************************************************************)
\* the arguments in the order README.md documents (README.md 27-59)
DocumentedOrder ==
    <<"db.internal", "5432", "dbuser", "dbpass", "bastion", "2222", "tunnel", "sshpass">>

\* the arguments in the order index.ts reads them (index.ts 33-40)
CodeOrder ==
    <<"db.internal", "5432", "bastion", "2222", "dbuser", "dbpass", "tunnel", "sshpass">>

Blank(a, B) == [i \in DOMAIN a |-> IF i \in B THEN "" ELSE a[i]]

\* the argument lists tried: a prefix of either order, with any of the arguments
\* after the second left empty
Argvs ==
    {Blank(SubSeq(base, 1, n), B) :
        base \in {DocumentedOrder, CodeOrder}, n \in 0..8, B \in SUBSET (3..8)}

\* the result of parseInt on a string that is not a number
NaN == -1

parseInt(s) ==
    IF s = "5432" THEN 5432 ELSE IF s = "2222" THEN 2222 ELSE NaN

\* args[i - 1], undefined past the end
ArgAt(a, i) == IF i <= Len(a) THEN a[i] ELSE Undefined

\* index.ts 33-40; null is modelled as undefined
ParseArgs(a) ==
    [databaseIp |-> ArgAt(a, 1),
     databasePort |-> ArgAt(a, 2),
     tunnelIp |-> ArgAt(a, 3),
     tunnelPort |-> ArgAt(a, 4),
     databaseUser |-> IF Len(a) >= 5 THEN a[5] ELSE Undefined,
     password |-> IF Len(a) >= 6 THEN a[6] ELSE Undefined,
     tunnelUsername |-> IF Len(a) >= 7 THEN a[7] ELSE Undefined,
     tunnelPassword |-> IF Len(a) >= 8 THEN a[8] ELSE Undefined]

\* index.ts 64
UseTunnel(p) ==
    Truthy(p.tunnelIp) /\ Truthy(p.tunnelPort) /\ Truthy(p.tunnelUsername)
        /\ Truthy(p.tunnelPassword)

\* the argument of connectWithTunnel: index.ts 65-73; sshPort is not given
TunnelCallArgs(p) ==
    [dbHostRemote |-> p.tunnelIp,
     dbPortRemote |-> parseInt(p.tunnelPort),
     dbUser |-> p.tunnelUsername,
     dbPassword |-> p.tunnelPassword,
     sshHost |-> p.tunnelIp,
     sshPort |-> 0,
     sshUser |-> p.tunnelUsername,
     sshPassword |-> p.tunnelPassword,
     sshPrivateKeyPath |-> Undefined,
     sshPassphrase |-> Undefined]

\* the arguments while connectWithTunnel is not called
NoArgs ==
    [dbHostRemote |-> Undefined, dbPortRemote |-> 0, dbUser |-> Undefined,
     dbPassword |-> Undefined, sshHost |-> Undefined, sshPort |-> 0,
     sshUser |-> Undefined, sshPassword |-> Undefined,
     sshPrivateKeyPath |-> Undefined, sshPassphrase |-> Undefined]

\* the order the direct path acquires the handles in: index.ts 78-79
HandleOrder == <<"haksaSisClient", "canvasProductionClient">>

\* the database of the pool each handle is acquired from on the direct path:
\* index.ts 52-58, 78-79
DirectDatabase(n) == IF n = "haksaSisClient" THEN "haksa_sis" ELSE "canvas_production"

\* a slip: the clients are assigned in the other order
AssignClients_Swapped(clients) ==
    [n \in HandleNames |->
        IF n = "haksaSisClient" THEN clients[2].database ELSE clients[1].database]

\* a slip: the second client is not assigned
AssignClients_FirstOnly(clients) ==
    [n \in HandleNames |-> IF n = "haksaSisClient" THEN clients[1].database ELSE "null"]

\* haksaSisClient = clients[0]; canvasProductionClient = clients[1]: index.ts 75-76
AssignClients(clients) ==
    [n \in HandleNames |->
        IF n = "haksaSisClient" THEN clients[1].database ELSE clients[2].database]

\* a slip: the failure is logged and the start goes on
OnStartupError_GoesOn == [proc |-> "serving", exitCode |-> -1]

\* the catch of the connect block: index.ts 82-85
OnStartupError == [proc |-> "exited", exitCode |-> 1]

NoneAssigned == [n \in HandleNames |-> "null"]

\* index.ts 27-73: the arguments are read, and the path is chosen
Main ==
    /\ proc = "starting"
    /\ LET p == ParseArgs(argv) IN
       IF Len(argv) < 2 \/ ~Truthy(p.databaseUser) \/ ~Truthy(p.password)
       THEN /\ proc' = "exited"
            /\ exitCode' = 1
            /\ UNCHANGED <<args, pc>>
       ELSE IF UseTunnel(p)
       THEN /\ proc' = "tunnel"
            /\ args' = TunnelCallArgs(p)
            /\ pc' = "init"
            /\ UNCHANGED exitCode
       ELSE /\ proc' = "direct"
            /\ UNCHANGED <<args, pc, exitCode>>
    /\ UNCHANGED <<argv, assigned, queryVars, proxyVars>>
    /\ UNCHANGED <<variant, sshConfig, sshState, sshErrors, srcPort, forward, listener,
                   serverErrors, pools, acq, values, allState, held, promise, log>>

\* await connectWithTunnel(...) continues: index.ts 65-76, 82-85
TunnelSettled ==
    /\ proc = "tunnel"
    /\ promise.state # "pending"
    /\ IF promise.state = "resolved"
       THEN /\ assigned' = AssignClients(promise.clients)
            /\ proc' = "serving"
            /\ UNCHANGED exitCode
       ELSE /\ proc' = OnStartupError.proc
            /\ exitCode' = OnStartupError.exitCode
            /\ UNCHANGED assigned
    /\ UNCHANGED <<argv, tunnelVars, queryVars, proxyVars>>

\* the next pool.connect() of the direct path resolves: index.ts 78-79
DirectConnected ==
    /\ proc = "direct"
    /\ LET n == IF assigned[HandleOrder[1]] = "null" THEN HandleOrder[1]
                ELSE HandleOrder[2]
       IN  /\ assigned' = [assigned EXCEPT ![n] = DirectDatabase(n)]
           /\ proc' = IF n = HandleOrder[2] THEN "serving" ELSE "direct"
    /\ UNCHANGED <<argv, exitCode, tunnelVars, queryVars, proxyVars>>

\* the next pool.connect() of the direct path rejects: index.ts 78-85
DirectFailed(message) ==
    /\ proc = "direct"
    /\ proc' = OnStartupError.proc
    /\ exitCode' = OnStartupError.exitCode
    /\ UNCHANGED <<argv, assigned, tunnelVars, queryVars, proxyVars>>

\* after process.exit nothing runs; until then the tunnel goes on
TunnelRuns == proc # "exited" /\ TunnelNext

\* the requests are followed to their first await here; QuerySpec follows them to
\* their end
StartupNext ==
    \/ Main
    \/ TunnelSettled
    \/ DirectConnected
    \/ \E m \in ErrMsgs : DirectFailed(m)
    \/ TunnelRuns
    \/ ListResources
    \/ \E path \in Pathnames : ReadResource(path)
    \/ \E name \in ToolNames, database \in DatabaseArgs : CallTool(name, database)

(***************************************************************************)
(* The specifications.                                                     *)
(***************************************************************************)
\* one call of connectWithTunnel, with any arguments of DbConnectArgs, by a caller
\* that awaits it; no request is served
Init ==
    /\ TunnelInit
    /\ QueryInit
    /\ ProxyIdle
    /\ argv = CodeOrder
    /\ proc = "tunnel"
    /\ exitCode = -1
    /\ assigned = NoneAssigned

Spec == Init /\ [][TunnelNext]_vars

\* the executor runs, the SSH client emits 'ready' or 'error', and every operation
\* that was started calls back
FairSpec ==
    /\ Spec
    /\ WF_vars(connectWithTunnel)
    /\ WF_vars(SshReady \/ \E m \in ErrMsgs : SshConnectError(m))
    /\ WF_vars((\E m \in ErrMsgs : ForwardError(m))
                  \/ (\E p \in StreamLocalPorts : ForwardStream(p)))
    /\ WF_vars(Listening \/ \E m \in ErrMsgs : ListenError(m))
    /\ \A i \in DOMAIN databaseNames :
          WF_vars(Acquired(i) \/ \E m \in ErrMsgs : AcquireFailed(i, m))

\* the server started on the direct path (index.ts 77-80): connectWithTunnel was
\* not called, and the arguments are those index.ts would pass (index.ts 65-73)
DirectInit ==
    /\ variant = "proxy"
    /\ args = NoArgs
    /\ pc = "idle"
    /\ TunnelFresh
    /\ QueryInit
    /\ ProxyIdle
    /\ argv = SubSeq(CodeOrder, 1, 6)
    /\ proc = "serving"
    /\ exitCode = -1
    /\ assigned = [n \in HandleNames |-> DirectDatabase(n)]

QuerySpec == DirectInit /\ [][QueryNext]_vars

\* the proxy version after server.listen called back (tunnel.ts 296-317), called
\* as index.ts calls it; the local connections come and go
ProxyInit ==
    /\ variant = "proxy"
    /\ args = TunnelCallArgs(ParseArgs(CodeOrder))
    /\ pc = "called"
    /\ sshConfig = SshConfig(args)
    /\ sshState = "ready"
    /\ sshErrors = 0
    /\ srcPort = TunnelSrcPort("proxy", 0)
    /\ forward = "none"
    /\ listener = "listening"
    /\ serverErrors = 0
    /\ pools = CreatePools(srcPort)
    /\ acq = [i \in DOMAIN databaseNames |-> "pending"]
    /\ values = [i \in DOMAIN databaseNames |-> NoClient]
    /\ allState = "pending"
    /\ held = <<>>
    /\ promise = PendingPromise
    /\ log = <<"connect", "listen", "pool.connect", "pool.connect">>
    /\ QueryInit
    /\ ProxyIdle
    /\ argv = CodeOrder
    /\ proc = "tunnel"
    /\ exitCode = -1
    /\ assigned = NoneAssigned

ProxySpec == ProxyInit /\ [][ProxyNext]_vars

\* a side that was ended closes: the peer of the socket, and the remote end of the
\* channel, answer the end of our side
ProxyFairSpec ==
    /\ ProxySpec
    /\ \A i \in ConnIds :
          /\ WF_vars(SocketEndCompletes(i))
          /\ WF_vars(StreamEndCompletes(i))

\* the process from its first statement
StartupInit ==
    /\ variant \in Variants
    /\ args = NoArgs
    /\ pc = "idle"
    /\ TunnelFresh
    /\ QueryInit
    /\ ProxyIdle
    /\ argv \in Argvs
    /\ proc = "starting"
    /\ exitCode = -1
    /\ assigned = NoneAssigned

StartupSpec == StartupInit /\ [][StartupNext]_vars

(***************************************************************************)
(* Notions the properties of connectWithTunnel are stated with.            *)
(***************************************************************************)
\* how often the call x is in the log
Count(s, x) == Cardinality({i \in DOMAIN s : s[i] = x})

sshEndCalls == Count(log, "end")

sshConnectCalls == Count(log, "connect")

Rejected == promise.state = "rejected"

Resolved == promise.state = "resolved"

\* sshClient.end() was called before the call that settled the promise
EndedBeforeSettled == \E k \in 1..(promise.at - 1) : log[k] = "end"

MissingCredentialsError == Err("SSH password or private key must be provided.", Undefined)

IsKeyReadError(e) == e.prefix = "Failed to read SSH private key: "

IsSshConnectError(e) == e.prefix = "SSH connection error: " /\ e.message \in ErrMsgs

IsForwardError(e) == e.prefix = "SSH forwardOut error: " /\ e.message \in ErrMsgs

IsLocalListenError(e) == e.prefix = "Local server error: " /\ e.message \in ErrMsgs

\* the error of the catch around Promise.all: the pool's error as it is in the
\* forwardOut version, wrapped in the proxy version
IsAcquisitionError(e) ==
    e.prefix \in {"", "Failed to connect to databases: "} /\ e.message \in ErrMsgs

\* the promise was rejected by the catch around Promise.all
RejectedByAcquisition == Rejected /\ IsAcquisitionError(promise.error)

\* every operation connectWithTunnel started has completed
Quiet ==
    /\ pc = "called"
    /\ sshState # "connecting"
    /\ forward # "pending"
    /\ listener # "binding"
    /\ \A i \in DOMAIN acq : acq[i] # "pending"

NothingOpened ==
    /\ pools = <<>>
    /\ acq = <<>>
    /\ held = <<>>
    /\ listener = "none"
    /\ forward = "none"

(***************************************************************************)
(* C1: the statement of the caller is executed only while the READ ONLY    *)
(* transaction opened by BEGIN TRANSACTION READ ONLY is open on that       *)
(* client, also when calls on the same handle overlap.                     *)
(* With two overlapping calls the ROLLBACK of the first may run between    *)
(* the BEGIN and the statement of the second, which then runs outside any  *)
(* transaction.                                                            *)
(***************************************************************************)
C1_SqlOnlyInsideReadOnlyTransaction ==
    \A client \in HandleNames :
        \A k \in DOMAIN handles[client].executed :
            LET e == handles[client].executed[k] IN
            e.text = SQL => e.txn # "idle"

(***************************************************************************)
(* C2: when the acquisition of a client fails, sshClient.end() has been    *)
(* called before the promise is rejected, in both versions.                *)
(* The forwardOut version does so; the proxy version rejects and leaves    *)
(* the session open.                                                       *)
(***************************************************************************)
C2_SessionClosedBeforeAcquisitionRejection ==
    RejectedByAcquisition => EndedBeforeSettled

(***************************************************************************)
(* C3: with neither an SSH password nor a private-key path, the call       *)
(* rejects with the missing-credentials error, sshClient.connect is never  *)
(* called, and no pool and no listener is created.                         *)
(***************************************************************************)
MissingBoth == ~Truthy(args.sshPrivateKeyPath) /\ ~Truthy(args.sshPassword)

C3_MissingCredentialsRejectsWithoutConnect ==
    (pc = "called" /\ MissingBoth) =>
        /\ Rejected
        /\ promise.error = MissingCredentialsError
        /\ sshConnectCalls = 0
        /\ sshState = "new"
        /\ NothingOpened

C3_Witness == pc = "called" /\ MissingBoth /\ Rejected

(***************************************************************************)
(* C4: with a private-key path that is set and cannot be read, the call    *)
(* rejects with the key-read failure and sshClient.connect is never        *)
(* called, also when a password is given: the password is not used.        *)
(***************************************************************************)
UnreadableKey ==
    Truthy(args.sshPrivateKeyPath) /\ ~readFileSync(args.sshPrivateKeyPath).ok

C4_UnreadableKeyRejectsBeforeConnect ==
    (pc = "called" /\ UnreadableKey) =>
        /\ Rejected
        /\ IsKeyReadError(promise.error)
        /\ promise.error.message = readFileSync(args.sshPrivateKeyPath).message
        /\ sshConnectCalls = 0
        /\ sshState = "new"
        /\ sshConfig.password = Undefined
        /\ NothingOpened

C4_Witness ==
    pc = "called" /\ UnreadableKey /\ Truthy(args.sshPassword) /\ Rejected

(***************************************************************************)
(* C5: when the session and the forward or listen setup succeed (neither   *)
(* the SSH client nor the server emitted an error) and both acquisitions   *)
(* succeed, the call resolves with exactly two clients, the client of      *)
(* haksa_sis first and the client of canvas_production second, whichever   *)
(* of the two pool.connect() calls completes first.                        *)
(***************************************************************************)
CanonicalClients ==
    <<[database |-> "haksa_sis"], [database |-> "canvas_production"]>>

BothAcquired == acq # <<>> /\ \A i \in DOMAIN acq : acq[i] = "ok"

C5_ClientsInCanonicalOrder ==
    /\ (BothAcquired /\ sshErrors = 0 /\ serverErrors = 0) => Resolved
    /\ Resolved =>
        /\ Len(promise.clients) = 2
        /\ promise.clients = CanonicalClients
        /\ \A i \in 1..2 : promise.clients[i].database = databaseNames[i]

\* canvas_production was acquired first, and the result is in canonical order
C5_Witness == Resolved /\ held = <<2, 1>> /\ variant = "proxy"

(***************************************************************************)
(* C6: when the SSH client emits its error before 'ready', the call        *)
(* rejects with the SSH connection error carrying the message of that      *)
(* error, connect is called once and never again, no clients are           *)
(* delivered, and no pool and no listener is created.                      *)
(***************************************************************************)
C6_ConnectFailureState ==
    sshState = "failed" =>
        /\ Rejected
        /\ IsSshConnectError(promise.error)
        /\ promise.clients = <<>>
        /\ sshConnectCalls = 1
        /\ NothingOpened

C6_SshConnectFailureRejects ==
    /\ []C6_ConnectFailureState
    /\ [][\A m \in ErrMsgs :
            SshConnectError(m) =>
                /\ promise'.state = "rejected"
                /\ promise'.error = Err("SSH connection error: ", m)]_vars

C6_Witness == sshState = "failed" /\ Rejected /\ variant = "proxy"

(***************************************************************************)
(* C7: when an acquisition fails, both pools are ended, the client the     *)
(* other pool delivered is released and, in the proxy version, the         *)
(* listener is closed before the rejection is delivered.                   *)
(* Neither version ends a pool, releases a client or closes the server.    *)
(***************************************************************************)
C7_ResourcesTornDownOnAcquisitionFailure ==
    RejectedByAcquisition =>
        /\ \A i \in DOMAIN pools : pools[i].ended
        /\ held = <<>>
        /\ variant = "proxy" => listener # "listening"

(***************************************************************************)
(* C8: in a run that fails, sshClient.end() is called exactly once when    *)
(* the failure came after 'ready' (forward failure, listen failure, no     *)
(* local port, acquisition failure, SSH error after 'ready') and not at    *)
(* all when it came before the session was established.                    *)
(* An acquisition failure in the proxy version and an SSH error after      *)
(* 'ready' leave the session open.                                         *)
(***************************************************************************)
C8_SessionClosedExactlyOncePerFailure ==
    (Quiet /\ Rejected) =>
        sshEndCalls = IF sshState = "ready" THEN 1 ELSE 0

(***************************************************************************)
(* C9: in the forwardOut version, when the forwardOut request fails the    *)
(* session is closed, the call rejects with the forward failure and no     *)
(* pool is created.                                                        *)
(***************************************************************************)
\* the claim as it is written
C9_ForwardFailureRejectsWithForwardError ==
    forward = "failed" =>
        /\ sshEndCalls >= 1
        /\ Rejected
        /\ IsForwardError(promise.error)
        /\ pools = <<>>

\* C9 as amended: the session is closed once and no pool is created; the call is
\* rejected, with the forward failure unless an 'error' event of the SSH client
\* rejected it first with the SSH connection error.
C9_ForwardFailureClosesSession ==
    forward = "failed" =>
        /\ sshEndCalls = 1
        /\ Rejected
        /\ pools = <<>> /\ acq = <<>> /\ held = <<>>
        /\ \/ IsForwardError(promise.error) /\ EndedBeforeSettled
           \/ /\ IsSshConnectError(promise.error)
              /\ sshErrors > 0
              /\ ~EndedBeforeSettled
        /\ sshErrors = 0 => IsForwardError(promise.error)

C9_Witness ==
    forward = "failed" /\ sshEndCalls = 1 /\ IsForwardError(promise.error) /\ sshErrors = 0

(***************************************************************************)
(* C10: in the proxy version, when binding the local listener fails the    *)
(* session is closed, the call rejects with the local-listen failure, no   *)
(* pool is created and no acquisition is started.                          *)
(***************************************************************************)
\* the claim as it is written
C10_ListenFailureRejectsWithListenError ==
    listener = "failed" =>
        /\ sshEndCalls >= 1
        /\ Rejected
        /\ IsLocalListenError(promise.error)
        /\ pools = <<>>
        /\ acq = <<>>

\* C10 as amended: the session is closed once, no pool is created and no
\* acquisition is started; the call is rejected, with the local-listen failure
\* unless an 'error' event of the SSH client rejected it first.
C10_ListenFailureClosesSession ==
    listener = "failed" =>
        /\ sshEndCalls = 1
        /\ Rejected
        /\ pools = <<>> /\ acq = <<>> /\ held = <<>>
        /\ Count(log, "pool.connect") = 0
        /\ \/ IsLocalListenError(promise.error) /\ EndedBeforeSettled
           \/ /\ IsSshConnectError(promise.error)
              /\ sshErrors > 0
              /\ ~EndedBeforeSettled
        /\ sshErrors = 0 => IsLocalListenError(promise.error)

C10_Witness ==
    /\ listener = "failed"
    /\ sshEndCalls = 1
    /\ IsLocalListenError(promise.error)
    /\ sshErrors = 0

(***************************************************************************)
(* Notions the properties of the proxy's connections are stated with.      *)
(***************************************************************************)
\* the forwardOut requests made for connection i
RequestsOf(i) == {k \in DOMAIN forwards : forwards[k].conn = i}

\* connection i is bridged and carries data
Flowing(i) ==
    /\ i \in DOMAIN conns
    /\ conns[i].socket = "open"
    /\ conns[i].stream = "open"

SocketClosed(i) == i \in DOMAIN conns /\ Bridged(conns[i]) /\ conns[i].socket = "closed"

StreamClosed(i) == i \in DOMAIN conns /\ conns[i].stream = "closed"

(***************************************************************************)
(* C11: in the proxy version two local connections open at the same time   *)
(* have two distinct forwarded channels, each the channel of its own       *)
(* forwardOut request, and the close of the socket or of the stream of one *)
(* connection changes nothing of any other connection: the socket and the  *)
(* stream of the other stay open and go on carrying data.                  *)
(***************************************************************************)
C11_OwnChannel ==
    \A i \in DOMAIN conns :
        /\ Cardinality(RequestsOf(i)) = 1
        /\ \A j \in DOMAIN conns : i # j => RequestsOf(i) \cap RequestsOf(j) = {}

C11_ConnectionsAreIndependent ==
    /\ []C11_OwnChannel
    /\ [][\A i \in ConnIds :
            (SocketClose(i) \/ StreamClose(i)) =>
                \A j \in DOMAIN conns \ {i} :
                    /\ conns'[j] = conns[j]
                    /\ Flowing(j) => Flowing(j)']_vars

\* the first connection is closed on both sides; the second is open on both sides
\* and has carried data
C11_Witness ==
    /\ Len(conns) = 2
    /\ conns[1].socket = "closed"
    /\ conns[1].stream = "closed"
    /\ Flowing(2)
    /\ conns[2].moved > 0

(***************************************************************************)
(* C12: for every bridged pair of the proxy version, a closed socket never *)
(* has its stream open and a closed stream never has its socket open: the  *)
(* other side is ended in the same step; and once a side is closed the     *)
(* other side is eventually closed too, given that an ended side closes.   *)
(***************************************************************************)
C12_NoHalfOpenPair ==
    \A i \in DOMAIN conns :
        Bridged(conns[i]) =>
            /\ conns[i].socket = "closed" => conns[i].stream \in {"ended", "closed"}
            /\ conns[i].stream = "closed" => conns[i].socket \in {"ended", "closed"}

C12_CloseReachesTheOtherSide ==
    /\ []C12_NoHalfOpenPair
    /\ \A i \in ConnIds :
          /\ SocketClosed(i) ~> StreamClosed(i)
          /\ StreamClosed(i) ~> SocketClosed(i)

\* both close orders happened: the socket of the first connection closed while its
\* stream was open, the stream of the second while its socket was open
C12_Witness ==
    /\ Len(conns) = 2
    /\ conns[1].socket = "closed" /\ conns[1].stream = "ended"
    /\ conns[2].stream = "closed" /\ conns[2].socket = "ended"

(***************************************************************************)
(* C13: once the call has resolved with its clients, connectWithTunnel     *)
(* makes no sshClient.end() call: none on the way to the resolution and    *)
(* none in a handler that runs later.                                      *)
(* In the proxy version the 'error' handler of the local server stays      *)
(* registered and ends the session also after the resolution.              *)
(***************************************************************************)
C13_SessionStaysOpenAfterResolve ==
    Resolved => sshEndCalls = 0

(***************************************************************************)
(* C14: started with the eight arguments in the order README.md documents  *)
(* (DB_HOST DB_PORT DB_USERNAME DB_PASSWORD SSH_HOST SSH_PORT SSH_USERNAME *)
(* SSH_PASSWORD), the SSH session is opened to SSH_HOST:SSH_PORT as        *)
(* SSH_USERNAME with SSH_PASSWORD, the forward goes to DB_HOST:DB_PORT,    *)
(* and the connection strings carry DB_USERNAME and DB_PASSWORD.           *)
(* index.ts reads the third and fourth argument as the tunnel host and     *)
(* port, and passes the tunnel's host, port, user and password as those of *)
(* the database as well.                                                   *)
(***************************************************************************)
C14_DocumentedArgumentsReachTheirPlaces ==
    (argv = DocumentedOrder /\ proc # "starting") =>
        /\ pc # "idle"
        /\ pc = "called" =>
            /\ sshConfig.host = DocumentedOrder[5]
            /\ sshConfig.port = parseInt(DocumentedOrder[6])
            /\ sshConfig.username = DocumentedOrder[7]
            /\ sshConfig.password = DocumentedOrder[8]
            \* tunnelOptions.dstAddr, dstPort: tunnel.ts 49-50, 259-260
            /\ args.dbHostRemote = DocumentedOrder[1]
            /\ args.dbPortRemote = parseInt(DocumentedOrder[2])
            /\ \A i \in DOMAIN pools :
                /\ pools[i].user = DocumentedOrder[3]
                /\ pools[i].password = DocumentedOrder[4]

(***************************************************************************)
(* C15: when the acquisition of the clients fails at the start, on the     *)
(* tunnel path (the promise of connectWithTunnel is rejected) or on the    *)
(* direct path (a pool.connect() rejects), the process exits with status   *)
(* 1, and no request handler runs: none before the exit, and nothing       *)
(* after it.                                                               *)
(***************************************************************************)
C15_NoRequestWithoutClients ==
    /\ proc # "serving" => calls = <<>>
    /\ proc = "exited" => exitCode = 1
    /\ Rejected => proc \in {"tunnel", "exited"}

C15_FailedStartupExits ==
    /\ []C15_NoRequestWithoutClients
    /\ [][\A m \in ErrMsgs : DirectFailed(m) => proc' = "exited" /\ exitCode' = 1]_vars
    /\ [][(Rejected /\ TunnelSettled) => proc' = "exited" /\ exitCode' = 1]_vars
    /\ [][proc # "exited"]_vars

\* the proxy version rejected after a failed pool.connect(), and the process exited
C15_Witness ==
    /\ proc = "exited"
    /\ RejectedByAcquisition
    /\ variant = "proxy"
    /\ exitCode = 1

(***************************************************************************)
(* C18: of the starts that get past the check of the database user and     *)
(* password, those with all four tunnel arguments (the third, fourth,      *)
(* seventh and eighth) non-empty call connectWithTunnel, and the others    *)
(* take the direct path; once the server serves, haksaSisClient is a       *)
(* client of haksa_sis and canvasProductionClient a client of              *)
(* canvas_production, so that getPoolClient returns a client of the        *)
(* database it is asked for.                                               *)
(***************************************************************************)
TunnelArgsGiven == \A i \in {3, 4, 7, 8} : Len(argv) >= i /\ argv[i] # ""

C18_PathAndHandles ==
    /\ pc # "idle" => TunnelArgsGiven
    /\ (proc \in {"direct", "serving"} /\ pc = "idle") => ~TunnelArgsGiven
    /\ proc \in {"tunnel", "direct", "serving"} =>
          (TunnelArgsGiven <=> (proc = "tunnel" \/ pc = "called"))
    /\ proc = "serving" =>
          /\ assigned["haksaSisClient"] = "haksa_sis"
          /\ assigned["canvasProductionClient"] = "canvas_production"
          /\ \A i \in DOMAIN databaseNames :
                assigned[getPoolClient(databaseNames[i])] = databaseNames[i]

\* the tunnel path, canvas_production acquired first
C18_Witness ==
    /\ proc = "serving"
    /\ Resolved
    /\ held = <<2, 1>>
    /\ assigned["haksaSisClient"] = "haksa_sis"

(***************************************************************************)
(* C16: the SSH configuration handed to connect carries one form of        *)
(* credentials: with a private-key path, the key, the passphrase if and    *)
(* only if one is given, and no password, also when the arguments have a   *)
(* password; without a private-key path, the password and no key.          *)
(***************************************************************************)
Connecting == sshConnectCalls > 0

C16_OneCredentialForm ==
    Connecting =>
        IF Truthy(args.sshPrivateKeyPath)
        THEN /\ sshConfig.privateKey = readFileSync(args.sshPrivateKeyPath).data
             /\ sshConfig.privateKey # Undefined
             /\ sshConfig.password = Undefined
             /\ Truthy(args.sshPassphrase) => sshConfig.passphrase = args.sshPassphrase
             /\ ~Truthy(args.sshPassphrase) => sshConfig.passphrase = Undefined
        ELSE /\ sshConfig.password = args.sshPassword
             /\ Truthy(sshConfig.password)
             /\ sshConfig.privateKey = Undefined
             /\ sshConfig.passphrase = Undefined

\* a key with its passphrase, and a password in the arguments that is not used
C16_Witness ==
    /\ Connecting
    /\ Truthy(args.sshPrivateKeyPath)
    /\ Truthy(args.sshPassword)
    /\ sshConfig.passphrase = "phrase"
    /\ sshConfig.password = Undefined

(***************************************************************************)
(* C17: every `query` call, whether its BEGIN failed, its statement failed *)
(* or its statement succeeded, sends exactly one ROLLBACK, on the client   *)
(* it used; the handler ends in the step that sends it, with the ROLLBACK  *)
(* still in the queue and release() called; and the completion of a        *)
(* ROLLBACK, good or bad, changes nothing of what any call delivered.      *)
(***************************************************************************)
\* the ROLLBACKs call id sent on the client
RollbacksOf(id, client) ==
    {k \in DOMAIN handles[client].issued :
        /\ handles[client].issued[k].call = id
        /\ handles[client].issued[k].text = ROLLBACK}

C17_OneRollbackPerCall ==
    \A id \in DOMAIN calls :
        calls[id].name = "query" =>
            \A client \in HandleNames :
                Cardinality(RollbacksOf(id, client)) =
                    IF calls[id].pc = "done" /\ client = calls[id].client THEN 1 ELSE 0

C17_RollbackIsFireAndForget ==
    /\ []C17_OneRollbackPerCall
    /\ [][\A id \in DOMAIN calls :
            (calls[id].name = "query" /\ calls[id].pc # "done"
                /\ calls'[id].pc = "done") =>
                LET before == handles[calls[id].client]
                    after == handles'[calls[id].client]
                IN  /\ after.queue # <<>>
                    /\ after.queue[Len(after.queue)] = [call |-> id, text |-> ROLLBACK]
                    /\ after.releases = before.releases + 1]_vars
    /\ [][\A client \in HandleNames :
            (handles[client].queue # <<>> /\ Head(handles[client].queue).text = ROLLBACK
                /\ handles'[client].queue = Tail(handles[client].queue)) =>
                calls' = calls]_vars

\* the first call delivered its rows, and its ROLLBACK was lost afterwards
C17_Witness ==
    /\ Len(calls) >= 1
    /\ calls[1].pc = "done"
    /\ calls[1].outcome = "rows"
    /\ handles[calls[1].client].queue = <<>>
    /\ ~handles[calls[1].client].alive
    /\ Len(handles[calls[1].client].executed) = 2

(***************************************************************************)
(* C19: in the proxy version every accepted connection makes exactly one   *)
(* forwardOut request, to the remote database host and port, with the      *)
(* address and port the socket reports for its peer as the source          *)
(* (127.0.0.1 and 0 standing in for what it does not report); when the     *)
(* request fails, socket.end() is called on that socket and nothing else   *)
(* changes: the listener listens, the SSH session is open, and every other *)
(* connection is as it was.                                                *)
(***************************************************************************)
C19_OneRequestPerConnection ==
    /\ Len(forwards) = Len(conns)
    /\ \A i \in DOMAIN conns :
          /\ RequestsOf(i) = {i}
          /\ forwards[i].request.dstAddr = args.dbHostRemote
          /\ forwards[i].request.dstPort = args.dbPortRemote
          /\ Truthy(conns[i].peer.address) =>
                forwards[i].request.srcAddr = conns[i].peer.address
          /\ conns[i].peer.port # 0 => forwards[i].request.srcPort = conns[i].peer.port
          /\ ~Truthy(conns[i].peer.address) => forwards[i].request.srcAddr = "127.0.0.1"
          /\ conns[i].peer.port = 0 => forwards[i].request.srcPort = 0
          /\ conns[i].stream = "failed" => conns[i].socket \in {"ended", "closed"}
    /\ listener = "listening"
    /\ sshState = "ready"
    /\ sshEndCalls = 0

C19_ForwardFailureIsLocal ==
    /\ []C19_OneRequestPerConnection
    /\ [][\A i \in ConnIds :
            ForwardOutError(i) =>
                /\ conns'[i].socket = IF conns[i].socket = "open" THEN "ended"
                                      ELSE conns[i].socket
                /\ conns'[i].socket # "open"
                /\ \A j \in DOMAIN conns \ {i} : conns'[j] = conns[j]
                /\ UNCHANGED <<forwards, tunnelVars>>
                /\ listener' = "listening"]_vars

\* the request of the first connection failed; the second connection, accepted
\* from a peer the socket reports, is bridged and has carried data
C19_Witness ==
    /\ Len(conns) = 2
    /\ conns[1].stream = "failed"
    /\ conns[1].socket = "ended"
    /\ conns[2].peer.port # 0
    /\ Flowing(2)
    /\ conns[2].moved > 0

(***************************************************************************)
(* C20: in the forwardOut version both pools connect to 127.0.0.1 at the   *)
(* local port the forwarded stream reports; when the stream reports none   *)
(* (the requested source port is 0, so nothing stands in for it), the      *)
(* session is closed, the call is rejected and no pool is created.         *)
(***************************************************************************)
NoLocalPortError == Err("Failed to get local port for tunnel.", Undefined)

C20_PoolsAtResolvedPort ==
    (variant = "forwardOut" /\ forward = "ok") =>
        IF pools # <<>>
        THEN /\ Len(pools) = 2
             /\ \A i \in DOMAIN pools :
                   /\ pools[i].host = "127.0.0.1"
                   /\ pools[i].port \in StreamLocalPorts \ {0}
                   /\ pools[i].port = pools[1].port
        ELSE /\ srcPort = 0
             /\ sshEndCalls = 1
             /\ Rejected
             /\ sshErrors = 0 => promise.error = NoLocalPortError
             /\ acq = <<>> /\ held = <<>>
             /\ Count(log, "pool.connect") = 0

C20_LocalPortOrRejection ==
    /\ []C20_PoolsAtResolvedPort
    /\ [][\A p \in StreamLocalPorts :
            (variant = "forwardOut" /\ ForwardStream(p)) =>
                IF p # 0
                THEN \A i \in DOMAIN databaseNames :
                        /\ pools'[i].port = p
                        /\ pools'[i].host = "127.0.0.1"
                ELSE /\ pools' = <<>>
                     /\ sshEndCalls' = sshEndCalls + 1
                     /\ promise'.state = "rejected"]_vars

\* the stream reported no local port
C20_Witness ==
    /\ variant = "forwardOut"
    /\ forward = "ok"
    /\ pools = <<>>
    /\ sshEndCalls = 1
    /\ promise.error = NoLocalPortError

(***************************************************************************)
(* C23: in every run in which the executor runs, the SSH client emits      *)
(* 'ready' or 'error' and every operation that was started (the forward    *)
(* request, the listen, each pool.connect()) calls back, the promise is    *)
(* eventually settled; and a settled promise never changes: a run delivers *)
(* clients or an error, never both, whatever resolve and reject calls      *)
(* follow.                                                                 *)
(***************************************************************************)
Settled == promise.state # "pending"

C23_DeliversOneOutcome ==
    /\ Resolved => promise.clients # <<>> /\ promise.error = NoError
    /\ Rejected => promise.clients = <<>> /\ promise.error # NoError
    /\ Settled => promise.at \in DOMAIN log /\ log[promise.at] \in {"resolve", "reject"}
    /\ Settled => \A k \in 1..(promise.at - 1) : log[k] \notin {"resolve", "reject"}

C23_SettledExactlyOnce ==
    /\ <>Settled
    /\ []C23_DeliversOneOutcome
    /\ [][Settled => promise' = promise]_vars

\* the promise resolved, and a reject call that came later changed nothing
C23_Witness ==
    /\ Resolved
    /\ promise.clients = CanonicalClients
    /\ Count(log, "reject") > 0

(***************************************************************************)
(* Notions the properties of the request handlers are stated with.         *)
(***************************************************************************)
\* the handle a database name selects
SelectedBy(name) ==
    IF name = "haksa_sis" THEN "haksaSisClient" ELSE "canvasProductionClient"

\* the queries call id issued on the client
IssuedBy(id, client) ==
    {k \in DOMAIN handles[client].issued : handles[client].issued[k].call = id}

LastOf(path) == path[Len(path)]

ThirdFromEnd(path) == IF Len(path) >= 3 THEN path[Len(path) - 2] ELSE Undefined

(***************************************************************************)
(* C21: a request is served by the handle its database name selects:       *)
(* "haksa_sis" selects haksaSisClient, and every other name, a missing or  *)
(* an empty one included, canvasProductionClient. The name of a resource   *)
(* read is the third path component from the end of its URI; a read whose  *)
(* last path component is not "schema" is rejected with no query issued    *)
(* and no client released. ListResources asks each of the two by its name. *)
(***************************************************************************)
C21_SelectedHandle ==
    \A id \in DOMAIN calls :
        LET c == calls[id] IN
        /\ c.name = "query" =>
              /\ c.client = SelectedBy(c.asked)
              /\ IssuedBy(id, CHOOSE n \in HandleNames : n # c.client) = {}
        /\ c.name = "resources/read" =>
              /\ c.asked = ThirdFromEnd(c.uri)
              /\ IF LastOf(c.uri) = "schema"
                 THEN /\ c.client = SelectedBy(c.asked)
                      /\ IssuedBy(id, c.client) # {}
                      /\ IssuedBy(id, CHOOSE n \in HandleNames : n # c.client) = {}
                 ELSE /\ c.outcome = "Invalid resource URI"
                      /\ \A n \in HandleNames : IssuedBy(id, n) = {}
        /\ c.name = "resources/list" =>
              /\ c.pc = "list1" => c.client = SelectedBy("haksa_sis")
              /\ c.pc = "list2" => c.client = SelectedBy("canvas_production")
              /\ Cardinality(IssuedBy(id, SelectedBy("haksa_sis"))) = 1
              /\ Cardinality(IssuedBy(id, SelectedBy("canvas_production"))) <= 1

C21_RequestsUseTheSelectedHandle ==
    /\ []C21_SelectedHandle
    /\ [][\A path \in Pathnames :
            (ReadResource(path) /\ LastOf(path) # "schema") => handles' = handles]_vars

\* a read with a bad last component was rejected, and a read whose third component
\* from the end is haksa_sis was served by haksaSisClient
C21_Witness ==
    /\ Len(calls) = 2
    /\ calls[1].outcome = "Invalid resource URI"
    /\ calls[2].uri = <<"", "a", "haksa_sis", "users", "schema">>
    /\ calls[2].client = "haksaSisClient"
    /\ calls[2].outcome = "rows"

(***************************************************************************)
(* C22: over any sequence of requests, release() is called at most once on *)
(* each of the two handles, and no query is issued on a handle after its   *)
(* release.                                                                *)
(* Every handler releases the handle it used and none acquires one: the    *)
(* second request on a handle queries a released client and releases it    *)
(* again.                                                                  *)
(***************************************************************************)
C22_HandlesReleasedOnceAndNotUsedAfter ==
    \A client \in HandleNames :
        /\ handles[client].releases <= 1
        /\ \A k \in DOMAIN handles[client].issued : ~handles[client].issued[k].released

(***************************************************************************)
(* C24: a request handler runs only when haksaSisClient and                *)
(* canvasProductionClient are both set: the server serves only after both  *)
(* clients were acquired, and every step that starts a request finds both  *)
(* set.                                                                    *)
(***************************************************************************)
BothSet == \A n \in HandleNames : assigned[n] # "null"

C24_HandlesSet ==
    /\ proc = "serving" => BothSet
    /\ calls # <<>> => BothSet
    /\ \A id \in DOMAIN calls :
          calls[id].client # Undefined => assigned[calls[id].client] # "null"

C24_HandlersSeeBothClients ==
    /\ []C24_HandlesSet
    /\ [][calls' # calls => BothSet /\ proc = "serving"]_vars

\* after a start through the tunnel, a ListResources and a query were started
C24_Witness ==
    /\ Resolved
    /\ Len(calls) = 2
    /\ calls[1].name = "resources/list"
    /\ calls[2].name = "query"
    /\ BothSet

====
